---------------------------- MODULE Spec2Model ----------------------------
(***************************************************************************)
(* Bulk article pipeline of jchrysler/travel-platform:                     *)
(*   backend/src/agent/database/operations.py  (the store operations)      *)
(*   backend/src/agent/bulk_processor.py       (the queue worker)          *)
(*   backend/src/agent/bulk_api.py             (upload and cancel routes)  *)
(*   backend/src/agent/database/models.py      (rows, derived properties)  *)
(*                                                                         *)
(* The store is a relational database shared by two processes: the API     *)
(* server (upload_batch, cancel_batch_endpoint) and the stand-alone worker *)
(* (run_bulk_processor).  A step of the model is one committed transaction *)
(* or one read statement.  The worker reads and writes in separate         *)
(* statements (get_next_queued_article, then update_article_status), and   *)
(* so does cancel_batch (get_batch and its checks, then the writes and the *)
(* commit), so steps of the other process may fall between the two.        *)
(*                                                                         *)
(* A batch is identified by its position in `batches`, which is also its   *)
(* creation order (created_at ascending).  An article is identified by its *)
(* batch and its position in the batch's article list.  Timestamps are     *)
(* modelled by whether they are set.                                       *)
(***************************************************************************)
EXTENDS Integers, Sequences, FiniteSets, Bags, TLC

MaxBatches == 2       \* batches created in one run of the model
MaxItems == 2         \* rows of one uploaded file
MaxFaults == 1        \* store operations of the worker that fail in one run

\* Callers of the routes.  upload_batch and cancel_batch_endpoint default
\* user_id to "default_user"; a cancel may also come from somebody else.
Uploaders == {"default_user"}

Users == {"default_user", "other_user"}

BatchStatus == {"pending", "processing", "completed", "failed", "cancelled"}

ArticleStatus == {"queued", "processing", "completed", "failed", "skipped"}

VARIABLES
    batches,         \* table article_batches, in creation order
    articles,        \* table batch_articles: articles[b] are the rows of batch b
    logs,            \* table processing_logs: a bag of entries (ids and timestamps left out)
    processing,      \* BulkArticleProcessor.processing
    pc,              \* the worker's position in process_queue / process_batch
    current_batch,   \* the batch process_batch was called with (0: none)
    current_article, \* the article returned by get_next_queued_article (0: none)
    cancel,          \* the latest cancel_batch call: its arguments, its outcome
                     \* ("pass": past the checks, its writes not yet committed) and
                     \* the articles of the batch that were processing at its commit
    faults,          \* store operations of the worker that have failed so far
    stream           \* the status stream of one client: its batch, where it is,
                     \* generate()'s last_status / last_completed / last_failed,
                     \* and the last two events it has yielded

vars == <<batches, articles, logs, processing, pc, current_batch,
          current_article, cancel, faults, stream>>

store == [batches |-> batches, articles |-> articles, logs |-> logs]

NoCall == [batch_id |-> 0, user_id |-> "", outcome |-> "none", in_flight |-> {}]

\* No event yet: generate() starts with last_status = None, last_completed =
\* last_failed = 0.
NoEvent == [status |-> "None", completed_articles |-> 0, failed_articles |-> 0,
            is_complete |-> FALSE]

NoStream == [batch_id |-> 0, state |-> "none", last |-> <<"None", 0, 0>>,
             event |-> NoEvent, previous |-> NoEvent]

-----------------------------------------------------------------------------
(* models.py *)

is_complete(batch) == batch.status \in {"completed", "failed", "cancelled"}

article_is_complete(article) == article.status \in {"completed", "failed", "skipped"}

\* (completed_articles + failed_articles) / total_articles * 100, kept as the
\* exact fraction num/den: the quotient is taken before the product.
progress_percentage(batch) ==
    IF batch.total_articles = 0
    THEN [num |-> 0, den |-> 1]
    ELSE [num |-> (batch.completed_articles + batch.failed_articles) * 100,
          den |-> batch.total_articles]

ProcessingLog(b, a, level, message) ==
    [batch_id |-> b, article_id |-> a, level |-> level, message |-> message]

-----------------------------------------------------------------------------
(* operations.py *)

\* A create_batch that numbers the rows from the end of articles_data.
create_batch_row_index_from_end(db, user_id, n) ==
    LET b == Len(db.batches) + 1
        batch == [user_id |-> user_id, status |-> "pending", total_articles |-> n,
                  completed_articles |-> 0, failed_articles |-> 0,
                  started_at |-> FALSE, completed_at |-> FALSE]
        rows == [idx \in 1..n |-> [status |-> "queued", processing_attempts |-> 0,
                                   row_index |-> n - idx + 1]]
    IN  [batches |-> Append(db.batches, batch),
         articles |-> Append(db.articles, rows),
         logs |-> db.logs (+) SetToBag({ProcessingLog(b, 0, "INFO", <<"Batch created with", n>>)})]

\* A create_batch that commits where the code flushes (line 60): the batch
\* row is visible before any article row is.
create_batch_commits_at_flush(db, user_id, n) ==
    LET batch == [user_id |-> user_id, status |-> "pending", total_articles |-> n,
                  completed_articles |-> 0, failed_articles |-> 0,
                  started_at |-> FALSE, completed_at |-> FALSE]
    IN  [batches |-> Append(db.batches, batch),
         articles |-> Append(db.articles, << >>),
         logs |-> db.logs]

\* create_batch: one transaction that inserts the batch row, one article row
\* per entry of articles_data (row_index = idx + 1) and one INFO log entry.
\* articles_data is given by its length n; the row made from its idx-th
\* entry is the idx-th row of the batch.
create_batch(db, user_id, n) ==
    LET b == Len(db.batches) + 1
        batch == [user_id |-> user_id, status |-> "pending", total_articles |-> n,
                  completed_articles |-> 0, failed_articles |-> 0,
                  started_at |-> FALSE, completed_at |-> FALSE]
        rows == [idx \in 1..n |-> [status |-> "queued", processing_attempts |-> 0,
                                   row_index |-> idx]]
    IN  [batches |-> Append(db.batches, batch),
         articles |-> Append(db.articles, rows),
         logs |-> db.logs (+) SetToBag({ProcessingLog(b, 0, "INFO", <<"Batch created with", n>>)})]

\* get_batch: the row with that batch_id, or none.
get_batch(db, batch_id) == IF batch_id \in 1..Len(db.batches) THEN batch_id ELSE 0

\* A get_next_queued_article that orders by row_index descending.
get_next_queued_article_desc(db, b) ==
    LET queued == {i \in 1..Len(db.articles[b]) : db.articles[b][i].status = "queued"}
    IN  IF queued = {} THEN 0
        ELSE CHOOSE i \in queued :
                 \A j \in queued : db.articles[b][i].row_index >= db.articles[b][j].row_index

\* get_next_queued_article: the queued row of the batch with the least
\* row_index, or 0 when the batch has no queued row.
get_next_queued_article(db, b) ==
    LET queued == {i \in 1..Len(db.articles[b]) : db.articles[b][i].status = "queued"}
    IN  IF queued = {} THEN 0
        ELSE CHOOSE i \in queued :
                 \A j \in queued : db.articles[b][i].row_index <= db.articles[b][j].row_index

\* An update_article_status that also counts the move to processing.
update_article_status_counts_claim(db, b, i, status) ==
    LET article == [db.articles[b][i] EXCEPT
                        !.status = status,
                        !.processing_attempts = IF status = "processing" THEN @ + 1 ELSE @]
        counted == [db.batches[b] EXCEPT
                        !.completed_articles =
                            IF status \in {"processing", "completed"} THEN @ + 1 ELSE @,
                        !.failed_articles = IF status = "failed" THEN @ + 1 ELSE @]
        batch == IF counted.completed_articles + counted.failed_articles
                        >= counted.total_articles
                 THEN [counted EXCEPT !.status = "completed", !.completed_at = TRUE]
                 ELSE counted
    IN  [batches |-> [db.batches EXCEPT ![b] = batch],
         articles |-> [db.articles EXCEPT ![b][i] = article],
         logs |-> db.logs (+) SetToBag({
                     ProcessingLog(b, i, IF status # "failed" THEN "INFO" ELSE "ERROR",
                                   <<"Article status changed to", status>>)})]

\* An update_article_status whose failed branch records the failure on the
\* batch but leaves the article's status as it was.
update_article_status_failed_keeps_status(db, b, i, status) ==
    LET article == [db.articles[b][i] EXCEPT
                        !.status = IF status = "failed" THEN @ ELSE status,
                        !.processing_attempts = IF status = "processing" THEN @ + 1 ELSE @]
        counted == [db.batches[b] EXCEPT
                        !.completed_articles = IF status = "completed" THEN @ + 1 ELSE @,
                        !.failed_articles = IF status = "failed" THEN @ + 1 ELSE @]
        batch == IF counted.completed_articles + counted.failed_articles
                        >= counted.total_articles
                 THEN [counted EXCEPT !.status = "completed", !.completed_at = TRUE]
                 ELSE counted
    IN  [batches |-> [db.batches EXCEPT ![b] = batch],
         articles |-> [db.articles EXCEPT ![b][i] = article],
         logs |-> db.logs (+) SetToBag({
                     ProcessingLog(b, i, IF status # "failed" THEN "INFO" ELSE "ERROR",
                                   <<"Article status changed to", status>>)})]

\* An update_article_status whose completion check is > instead of >=.
update_article_status_strict_completion(db, b, i, status) ==
    LET article == [db.articles[b][i] EXCEPT
                        !.status = status,
                        !.processing_attempts = IF status = "processing" THEN @ + 1 ELSE @]
        counted == [db.batches[b] EXCEPT
                        !.completed_articles = IF status = "completed" THEN @ + 1 ELSE @,
                        !.failed_articles = IF status = "failed" THEN @ + 1 ELSE @]
        batch == IF counted.completed_articles + counted.failed_articles
                        > counted.total_articles
                 THEN [counted EXCEPT !.status = "completed", !.completed_at = TRUE]
                 ELSE counted
    IN  [batches |-> [db.batches EXCEPT ![b] = batch],
         articles |-> [db.articles EXCEPT ![b][i] = article],
         logs |-> db.logs (+) SetToBag({
                     ProcessingLog(b, i, IF status # "failed" THEN "INFO" ELSE "ERROR",
                                   <<"Article status changed to", status>>)})]

\* An update_article_status that marks the batch failed when every article
\* of it has failed.
update_article_status_fails_batch(db, b, i, status) ==
    LET article == [db.articles[b][i] EXCEPT
                        !.status = status,
                        !.processing_attempts = IF status = "processing" THEN @ + 1 ELSE @]
        counted == [db.batches[b] EXCEPT
                        !.completed_articles = IF status = "completed" THEN @ + 1 ELSE @,
                        !.failed_articles = IF status = "failed" THEN @ + 1 ELSE @]
        batch == IF counted.completed_articles + counted.failed_articles
                        >= counted.total_articles
                 THEN [counted EXCEPT
                           !.status = IF counted.failed_articles >= counted.total_articles
                                      THEN "failed" ELSE "completed",
                           !.completed_at = TRUE]
                 ELSE counted
    IN  [batches |-> [db.batches EXCEPT ![b] = batch],
         articles |-> [db.articles EXCEPT ![b][i] = article],
         logs |-> db.logs (+) SetToBag({
                     ProcessingLog(b, i, IF status # "failed" THEN "INFO" ELSE "ERROR",
                                   <<"Article status changed to", status>>)})]

\* An update_article_status that sets an article failed without counting it.
update_article_status_uncounted_failure(db, b, i, status) ==
    LET article == [db.articles[b][i] EXCEPT
                        !.status = status,
                        !.processing_attempts = IF status = "processing" THEN @ + 1 ELSE @]
        counted == [db.batches[b] EXCEPT
                        !.completed_articles = IF status = "completed" THEN @ + 1 ELSE @]
        batch == IF counted.completed_articles + counted.failed_articles
                        >= counted.total_articles
                 THEN [counted EXCEPT !.status = "completed", !.completed_at = TRUE]
                 ELSE counted
    IN  [batches |-> [db.batches EXCEPT ![b] = batch],
         articles |-> [db.articles EXCEPT ![b][i] = article],
         logs |-> db.logs (+) SetToBag({
                     ProcessingLog(b, i, IF status # "failed" THEN "INFO" ELSE "ERROR",
                                   <<"Article status changed to", status>>)})]

\* An update_article_status that leaves processing_attempts alone.
update_article_status_no_attempt(db, b, i, status) ==
    LET article == [db.articles[b][i] EXCEPT !.status = status]
        counted == [db.batches[b] EXCEPT
                        !.completed_articles = IF status = "completed" THEN @ + 1 ELSE @,
                        !.failed_articles = IF status = "failed" THEN @ + 1 ELSE @]
        batch == IF counted.completed_articles + counted.failed_articles
                        >= counted.total_articles
                 THEN [counted EXCEPT !.status = "completed", !.completed_at = TRUE]
                 ELSE counted
    IN  [batches |-> [db.batches EXCEPT ![b] = batch],
         articles |-> [db.articles EXCEPT ![b][i] = article],
         logs |-> db.logs (+) SetToBag({
                     ProcessingLog(b, i, IF status # "failed" THEN "INFO" ELSE "ERROR",
                                   <<"Article status changed to", status>>)})]

\* An update_article_status whose log entry is always of level INFO.
update_article_status_info_only(db, b, i, status) ==
    LET article == [db.articles[b][i] EXCEPT
                        !.status = status,
                        !.processing_attempts = IF status = "processing" THEN @ + 1 ELSE @]
        counted == [db.batches[b] EXCEPT
                        !.completed_articles = IF status = "completed" THEN @ + 1 ELSE @,
                        !.failed_articles = IF status = "failed" THEN @ + 1 ELSE @]
        batch == IF counted.completed_articles + counted.failed_articles
                        >= counted.total_articles
                 THEN [counted EXCEPT !.status = "completed", !.completed_at = TRUE]
                 ELSE counted
    IN  [batches |-> [db.batches EXCEPT ![b] = batch],
         articles |-> [db.articles EXCEPT ![b][i] = article],
         logs |-> db.logs (+) SetToBag({
                     ProcessingLog(b, i, "INFO", <<"Article status changed to", status>>)})]

\* update_article_status: sets the article's status, bumps the batch counter
\* for completed / failed, marks the batch completed when the counters reach
\* total_articles, appends one log entry; one commit.
update_article_status(db, b, i, status) ==
    LET article == [db.articles[b][i] EXCEPT
                        !.status = status,
                        !.processing_attempts = IF status = "processing" THEN @ + 1 ELSE @]
        counted == [db.batches[b] EXCEPT
                        !.completed_articles = IF status = "completed" THEN @ + 1 ELSE @,
                        !.failed_articles = IF status = "failed" THEN @ + 1 ELSE @]
        batch == IF counted.completed_articles + counted.failed_articles
                        >= counted.total_articles
                 THEN [counted EXCEPT !.status = "completed", !.completed_at = TRUE]
                 ELSE counted
    IN  [batches |-> [db.batches EXCEPT ![b] = batch],
         articles |-> [db.articles EXCEPT ![b][i] = article],
         logs |-> db.logs (+) SetToBag({
                     ProcessingLog(b, i, IF status # "failed" THEN "INFO" ELSE "ERROR",
                                   <<"Article status changed to", status>>)})]

\* An update_batch_status that writes no log entry.
update_batch_status_unlogged(db, b, status) ==
    LET batch == [db.batches[b] EXCEPT
                      !.status = status,
                      !.started_at = IF status = "processing" THEN TRUE ELSE @,
                      !.completed_at = IF status \in {"completed", "failed", "cancelled"}
                                       THEN TRUE ELSE @]
    IN  [batches |-> [db.batches EXCEPT ![b] = batch],
         articles |-> db.articles,
         logs |-> db.logs]

\* An update_batch_status whose query selects by the status of batch b, not
\* by its id: every batch of that status is written.
update_batch_status_by_status(db, b, status) ==
    LET Written(batch) ==
            [batch EXCEPT
                 !.status = status,
                 !.started_at = IF status = "processing" THEN TRUE ELSE @,
                 !.completed_at = IF status \in {"completed", "failed", "cancelled"}
                                  THEN TRUE ELSE @]
    IN  [batches |-> [c \in 1..Len(db.batches) |->
                         IF db.batches[c].status = db.batches[b].status
                         THEN Written(db.batches[c]) ELSE db.batches[c]],
         articles |-> db.articles,
         logs |-> db.logs (+) SetToBag({
                     ProcessingLog(b, 0, IF status # "failed" THEN "INFO" ELSE "ERROR",
                                   <<"Batch status changed to", status>>)})]

\* update_batch_status: sets the batch's status whatever it was, stamps
\* started_at or completed_at, appends one log entry; one commit.
update_batch_status(db, b, status) ==
    LET batch == [db.batches[b] EXCEPT
                      !.status = status,
                      !.started_at = IF status = "processing" THEN TRUE ELSE @,
                      !.completed_at = IF status \in {"completed", "failed", "cancelled"}
                                       THEN TRUE ELSE @]
    IN  [batches |-> [db.batches EXCEPT ![b] = batch],
         articles |-> db.articles,
         logs |-> db.logs (+) SetToBag({
                     ProcessingLog(b, 0, IF status # "failed" THEN "INFO" ELSE "ERROR",
                                   <<"Batch status changed to", status>>)})]

\* A cancel_batch that looks at the batch's status before the owner.
cancel_check_status_first(db, batch_id, user_id) ==
    LET b == get_batch(db, batch_id)
    IN  IF b = 0 THEN "not found"
        ELSE IF is_complete(db.batches[b]) THEN "Cannot cancel completed batch"
        ELSE IF db.batches[b].user_id # user_id THEN "Unauthorized"
        ELSE "pass"

\* cancel_batch, lines 224-232: the three checks, in the code's order.  The
\* code raises ValueError each time; the message tells the cases apart.
cancel_check(db, batch_id, user_id) ==
    LET b == get_batch(db, batch_id)
    IN  IF b = 0 THEN "not found"
        ELSE IF db.batches[b].user_id # user_id THEN "Unauthorized"
        ELSE IF is_complete(db.batches[b]) THEN "Cannot cancel completed batch"
        ELSE "pass"

\* A cancel_batch without the bulk update of the queued articles.
cancel_write_batch_only(db, b) ==
    LET batch == [db.batches[b] EXCEPT !.status = "cancelled", !.completed_at = TRUE]
    IN  [batches |-> [db.batches EXCEPT ![b] = batch],
         articles |-> db.articles,
         logs |-> db.logs (+) SetToBag({
                     ProcessingLog(b, 0, "WARNING", <<"Batch cancelled by user", db.batches[b].user_id>>)})]

\* A cancel_batch that also cuts total_articles down to the articles done.
cancel_write_shrinks_total(db, b) ==
    LET rows == [i \in 1..Len(db.articles[b]) |->
                    IF db.articles[b][i].status = "queued"
                    THEN [db.articles[b][i] EXCEPT !.status = "skipped"]
                    ELSE db.articles[b][i]]
        batch == [db.batches[b] EXCEPT
                      !.status = "cancelled", !.completed_at = TRUE,
                      !.total_articles = @ - Cardinality({i \in 1..Len(rows) :
                                                 rows[i].status = "skipped"})]
    IN  [batches |-> [db.batches EXCEPT ![b] = batch],
         articles |-> [db.articles EXCEPT ![b] = rows],
         logs |-> db.logs (+) SetToBag({
                     ProcessingLog(b, 0, "WARNING", <<"Batch cancelled by user", db.batches[b].user_id>>)})]

\* A cancel_batch whose bulk update also takes the article being processed.
cancel_write_skips_processing(db, b) ==
    LET rows == [i \in 1..Len(db.articles[b]) |->
                    IF db.articles[b][i].status \in {"queued", "processing"}
                    THEN [db.articles[b][i] EXCEPT !.status = "skipped"]
                    ELSE db.articles[b][i]]
        batch == [db.batches[b] EXCEPT !.status = "cancelled", !.completed_at = TRUE]
    IN  [batches |-> [db.batches EXCEPT ![b] = batch],
         articles |-> [db.articles EXCEPT ![b] = rows],
         logs |-> db.logs (+) SetToBag({
                     ProcessingLog(b, 0, "WARNING", <<"Batch cancelled by user", db.batches[b].user_id>>)})]

\* A cancel_batch that also sets the batch's counters back to 0.
cancel_write_resets_counters(db, b) ==
    LET rows == [i \in 1..Len(db.articles[b]) |->
                    IF db.articles[b][i].status = "queued"
                    THEN [db.articles[b][i] EXCEPT !.status = "skipped"]
                    ELSE db.articles[b][i]]
        batch == [db.batches[b] EXCEPT
                      !.status = "cancelled", !.completed_at = TRUE,
                      !.completed_articles = 0, !.failed_articles = 0]
    IN  [batches |-> [db.batches EXCEPT ![b] = batch],
         articles |-> [db.articles EXCEPT ![b] = rows],
         logs |-> db.logs (+) SetToBag({
                     ProcessingLog(b, 0, "WARNING", <<"Batch cancelled by user", db.batches[b].user_id>>)})]

\* cancel_batch, lines 234-256: the bulk queued -> skipped update, the batch
\* update and the WARNING log entry, committed together.
cancel_write(db, b) ==
    LET rows == [i \in 1..Len(db.articles[b]) |->
                    IF db.articles[b][i].status = "queued"
                    THEN [db.articles[b][i] EXCEPT !.status = "skipped"]
                    ELSE db.articles[b][i]]
        batch == [db.batches[b] EXCEPT !.status = "cancelled", !.completed_at = TRUE]
    IN  [batches |-> [db.batches EXCEPT ![b] = batch],
         articles |-> [db.articles EXCEPT ![b] = rows],
         logs |-> db.logs (+) SetToBag({
                     ProcessingLog(b, 0, "WARNING", <<"Batch cancelled by user", db.batches[b].user_id>>)})]

-----------------------------------------------------------------------------
Init ==
    /\ batches = << >>
    /\ articles = << >>
    /\ logs = EmptyBag
    /\ processing = TRUE
    /\ pc = "poll"
    /\ current_batch = 0
    /\ current_article = 0
    /\ cancel = NoCall
    /\ faults = 0
    /\ stream = NoStream

Commit(db) ==
    /\ batches' = db.batches
    /\ articles' = db.articles
    /\ logs' = db.logs

-----------------------------------------------------------------------------
(* bulk_api.py: the two routes that write to the store *)

\* upload_batch: rejects a file with no valid row (and one with more than
\* 100), then calls create_batch with the rows.
upload_batch(user_id, n) ==
    /\ Len(batches) < MaxBatches
    /\ n >= 1
    /\ Commit(create_batch(store, user_id, n))
    /\ UNCHANGED <<processing, pc, current_batch, current_article, cancel, faults, stream>>

\* A cancel_batch that runs its bulk update and its log entry before the
\* is_complete check, and commits them whatever the check says.
cancel_batch_begin_writes_first(batch_id, user_id) ==
    /\ cancel.outcome # "pass"
    /\ LET outcome == cancel_check(store, batch_id, user_id)
       IN  /\ cancel' = [batch_id |-> batch_id, user_id |-> user_id,
                         outcome |-> outcome, in_flight |-> {}]
           /\ IF outcome = "Cannot cancel completed batch"
              THEN Commit(cancel_write(store, batch_id))
              ELSE UNCHANGED <<batches, articles, logs>>
    /\ UNCHANGED <<processing, pc, current_batch, current_article, faults, stream>>

\* create_batch called as operations.py offers it, with any articles_data:
\* the function has no check of its own on the length of the list.
create_batch_call(user_id, n) ==
    /\ Len(batches) < MaxBatches
    /\ Commit(create_batch(store, user_id, n))
    /\ UNCHANGED <<processing, pc, current_batch, current_article, cancel, faults, stream>>

\* cancel_batch_endpoint -> cancel_batch, up to the checks: a failed check
\* returns the error to the caller, otherwise the call goes on to its writes.
cancel_batch_begin(batch_id, user_id) ==
    /\ cancel.outcome # "pass"
    /\ cancel' = [batch_id |-> batch_id, user_id |-> user_id,
                  outcome |-> cancel_check(store, batch_id, user_id), in_flight |-> {}]
    /\ UNCHANGED <<batches, articles, logs, processing, pc, current_batch, current_article, faults, stream>>

\* cancel_batch, the writes and the commit; the call returns the batch.
cancel_batch_commit ==
    /\ cancel.outcome = "pass"
    /\ Commit(cancel_write(store, cancel.batch_id))
    /\ cancel' = [cancel EXCEPT
                      !.outcome = "ok",
                      !.in_flight = {i \in 1..Len(articles[cancel.batch_id]) :
                                        articles[cancel.batch_id][i].status = "processing"}]
    /\ UNCHANGED <<processing, pc, current_batch, current_article, faults, stream>>

\* The event generate() yields for a batch: status_data without the fields
\* that are copies of the row (batch_id, total_articles), progress_percentage
\* and current_article.
status_data(batch) ==
    [status |-> batch.status, completed_articles |-> batch.completed_articles,
     failed_articles |-> batch.failed_articles, is_complete |-> is_complete(batch)]

\* stream_batch_status, lines 531-536 and 596: the route answers 404 or 403,
\* or hands generate() to the response.  One client is followed.
stream_batch_status(batch_id, user_id) ==
    /\ stream.state = "none"
    /\ get_batch(store, batch_id) # 0
    /\ batches[batch_id].user_id = user_id
    /\ stream' = [NoStream EXCEPT !.batch_id = batch_id, !.state = "open"]
    /\ UNCHANGED <<batches, articles, logs, processing, pc, current_batch,
                   current_article, cancel, faults>>

\* A turn of generate()'s loop that yields without remembering what it
\* yielded.
generate_poll_forgets_last(st, db) ==
    LET b == get_batch(db, st.batch_id)
        batch == db.batches[b]
        triple == <<batch.status, batch.completed_articles, batch.failed_articles>>
        changed == triple # st.last
    IN  IF b = 0
        THEN [st EXCEPT !.state = "closed"]
        ELSE [st EXCEPT
                 !.state = IF is_complete(batch) THEN "closed" ELSE "polling",
                 !.event = IF changed THEN status_data(batch) ELSE @,
                 !.previous = IF changed THEN st.event ELSE @]

\* generate(), one turn of the loop (lines 545-594): read the batch afresh;
\* leave when it is gone; yield an event when status, completed_articles or
\* failed_articles differ from last_*, and remember them; leave when the
\* batch is_complete, else sleep.
generate_poll(st, db) ==
    LET b == get_batch(db, st.batch_id)
        batch == db.batches[b]
        triple == <<batch.status, batch.completed_articles, batch.failed_articles>>
        changed == triple # st.last
    IN  IF b = 0
        THEN [st EXCEPT !.state = "closed"]
        ELSE [st EXCEPT
                 !.state = IF is_complete(batch) THEN "closed" ELSE "polling",
                 !.last = IF changed THEN triple ELSE @,
                 !.event = IF changed THEN status_data(batch) ELSE @,
                 !.previous = IF changed THEN st.event ELSE @]

generate ==
    /\ stream.state \in {"open", "polling"}
    /\ stream' = generate_poll(stream, store)
    /\ UNCHANGED <<batches, articles, logs, processing, pc, current_batch,
                   current_article, cancel, faults>>

-----------------------------------------------------------------------------
(* bulk_processor.py: BulkArticleProcessor *)

\* A process_queue that takes the newest pending batch.
newest_pending(db) ==
    LET pending == {b \in 1..Len(db.batches) : db.batches[b].status = "pending"}
    IN  IF pending = {} THEN 0 ELSE CHOOSE b \in pending : \A c \in pending : b >= c

\* The oldest batch with status pending (process_queue, lines 302-304), or 0.
oldest_pending(db) ==
    LET pending == {b \in 1..Len(db.batches) : db.batches[b].status = "pending"}
    IN  IF pending = {} THEN 0 ELSE CHOOSE b \in pending : \A c \in pending : b <= c

\* process_queue, one turn of the loop: leave when the flag is cleared, call
\* process_batch with the oldest pending batch, or sleep and poll again.
process_queue ==
    /\ pc = "poll"
    /\ IF ~processing
       THEN pc' = "stopped" /\ UNCHANGED current_batch
       ELSE LET b == oldest_pending(store)
            IN  IF b # 0
                THEN pc' = "start" /\ current_batch' = b
                ELSE UNCHANGED <<pc, current_batch>>
    /\ UNCHANGED <<batches, articles, logs, processing, current_article, cancel, faults, stream>>

\* A process_batch that goes to its loop without writing status processing.
process_batch_start_no_write ==
    /\ pc = "start"
    /\ IF get_batch(store, current_batch) = 0
       THEN pc' = "poll" /\ current_batch' = 0
       ELSE pc' = "next" /\ UNCHANGED current_batch
    /\ UNCHANGED <<batches, articles, logs, processing, current_article, cancel, faults, stream>>

\* process_batch, lines 208-220: get_batch (return when there is no such
\* batch), then update_batch_status(processing) with no look at the status
\* that was read.
process_batch_start ==
    /\ pc = "start"
    /\ IF get_batch(store, current_batch) = 0
       THEN /\ pc' = "poll"
            /\ current_batch' = 0
            /\ UNCHANGED <<batches, articles, logs>>
       ELSE /\ Commit(update_batch_status(store, current_batch, "processing"))
            /\ pc' = "next"
            /\ UNCHANGED current_batch
    /\ UNCHANGED <<processing, current_article, cancel, faults, stream>>

\* A process_batch whose loop does not test self.processing.
process_batch_next_ignores_flag ==
    /\ pc = "next"
    /\ LET article == get_next_queued_article(store, current_batch)
       IN  IF article # 0
           THEN pc' = "mark" /\ current_article' = article
           ELSE pc' = "finish" /\ UNCHANGED current_article
    /\ UNCHANGED <<batches, articles, logs, processing, current_batch, cancel, faults, stream>>

\* process_batch, lines 223-228: the loop test and the read of the next
\* queued article.
process_batch_next ==
    /\ pc = "next"
    /\ LET article == get_next_queued_article(store, current_batch)
       IN  IF processing /\ article # 0
           THEN pc' = "mark" /\ current_article' = article
           ELSE pc' = "finish" /\ UNCHANGED current_article
    /\ UNCHANGED <<batches, articles, logs, processing, current_batch, cancel, faults, stream>>

\* process_batch, lines 233-235: update_article_status(processing) on the
\* article read in the step before.
process_batch_mark ==
    /\ pc = "mark"
    /\ Commit(update_article_status(store, current_batch, current_article, "processing"))
    /\ pc' = "generate"
    /\ UNCHANGED <<processing, current_batch, current_article, cancel, faults, stream>>

\* process_batch, lines 239-269: process_article returns success or failure
\* (it catches every exception), and the outcome is recorded.
process_batch_record(success) ==
    /\ pc = "generate"
    /\ Commit(update_article_status(store, current_batch, current_article,
                                    IF success THEN "completed" ELSE "failed"))
    /\ pc' = "next"
    /\ current_article' = 0
    /\ UNCHANGED <<processing, current_batch, cancel, faults, stream>>

\* A process_batch that marks the batch completed after its loop whatever
\* the counters say.
process_batch_finish_always_completes ==
    /\ pc = "finish"
    /\ Commit(update_batch_status(store, current_batch, "completed"))
    /\ pc' = "poll"
    /\ current_batch' = 0
    /\ UNCHANGED <<processing, current_article, cancel, faults, stream>>

\* process_batch, lines 272-281 and the finally clause: the completion check
\* after the loop.
process_batch_finish ==
    /\ pc = "finish"
    /\ LET batch == batches[current_batch]
       IN  IF batch.completed_articles + batch.failed_articles >= batch.total_articles
           THEN Commit(update_batch_status(store, current_batch, "completed"))
           ELSE UNCHANGED <<batches, articles, logs>>
    /\ pc' = "poll"
    /\ current_batch' = 0
    /\ UNCHANGED <<processing, current_article, cancel, faults, stream>>

\* A store operation of process_batch raises (the statement fails, nothing
\* is committed): control goes to the except clause.
process_batch_raise ==
    /\ pc \in {"start", "next", "mark", "generate", "finish"}
    /\ faults < MaxFaults
    /\ faults' = faults + 1
    /\ pc' = "except"
    /\ UNCHANGED <<batches, articles, logs, processing, current_batch, current_article, cancel, stream>>

\* process_batch, lines 283-291: update_batch_status(failed).
process_batch_except ==
    /\ pc = "except"
    /\ Commit(update_batch_status(store, current_batch, "failed"))
    /\ pc' = "poll"
    /\ current_batch' = 0
    /\ current_article' = 0
    /\ UNCHANGED <<processing, cancel, faults, stream>>

\* The except clause raises itself (batch unbound, or the store still
\* failing): process_queue, lines 313-315, logs, sleeps and polls again.
process_queue_except ==
    /\ pc = "except"
    /\ pc' = "poll"
    /\ current_batch' = 0
    /\ current_article' = 0
    /\ UNCHANGED <<batches, articles, logs, processing, cancel, faults, stream>>

\* The worker process is interrupted or killed wherever it is: its coroutine
\* is abandoned (CancelledError is no Exception, so the except clauses of
\* process_batch and process_queue do not run and nothing is written), and
\* run_bulk_processor's finally clause calls stop().
interrupt ==
    /\ pc # "stopped"
    /\ processing' = FALSE
    /\ pc' = "stopped"
    /\ current_batch' = 0
    /\ current_article' = 0
    /\ UNCHANGED <<batches, articles, logs, cancel, faults, stream>>

\* stop(), awaited by another task of the worker's event loop while
\* process_queue runs: it clears the flag and nothing else of the worker.  The
\* worker gives up control only inside process_article and in its sleeps, so
\* that is where the flag can change under it.
stop ==
    /\ processing
    /\ pc \in {"generate", "poll"}
    /\ processing' = FALSE
    /\ UNCHANGED <<batches, articles, logs, pc, current_batch, current_article, cancel, faults, stream>>

\* A run_bulk_processor that puts the articles found processing back in the
\* queue before it starts.
run_bulk_processor_requeues ==
    /\ pc = "stopped"
    /\ processing' = TRUE
    /\ pc' = "poll"
    /\ articles' = [b \in 1..Len(articles) |->
                       [i \in 1..Len(articles[b]) |->
                           IF articles[b][i].status = "processing"
                           THEN [articles[b][i] EXCEPT !.status = "queued"]
                           ELSE articles[b][i]]]
    /\ UNCHANGED <<batches, logs, current_batch, current_article, cancel, faults, stream>>

\* run_bulk_processor is run again: a new BulkArticleProcessor, start(), then
\* process_queue.
run_bulk_processor ==
    /\ pc = "stopped"
    /\ processing' = TRUE
    /\ pc' = "poll"
    /\ UNCHANGED <<batches, articles, logs, current_batch, current_article, cancel, faults, stream>>

-----------------------------------------------------------------------------
Upload == \E user_id \in Uploaders, n \in 1..MaxItems : upload_batch(user_id, n)

CancelBegin == \E batch_id \in 1..MaxBatches, user_id \in Users :
                   cancel_batch_begin(batch_id, user_id)

Record == \E success \in BOOLEAN : process_batch_record(success)

\* The worker without store failures.
Worker ==
    \/ process_queue
    \/ process_batch_start
    \/ process_batch_next
    \/ process_batch_mark
    \/ Record
    \/ process_batch_finish

\* The worker's steps on a store failure.
WorkerFault ==
    \/ process_batch_raise
    \/ process_batch_except
    \/ process_queue_except

Api == Upload \/ CancelBegin \/ cancel_batch_commit

Next == Api \/ Worker \/ WorkerFault

Spec == Init /\ [][Next]_vars

\* The same program when no store operation of the worker fails.
NextNoFault == Api \/ Worker

SpecNoFault == Init /\ [][NextNoFault]_vars

\* The worker keeps running (process_queue loops while self.processing, and
\* every generation call returns), and a cancel_batch call that is past its
\* checks goes on to its commit.
SpecNoFaultFair ==
    SpecNoFault /\ WF_vars(Worker) /\ WF_vars(cancel_batch_commit)

\* The worker process stopped and run again any number of times, no store
\* operation failing; while it runs it keeps running.
NextRestart == NextNoFault \/ interrupt \/ run_bulk_processor

SpecRestart ==
    /\ Init /\ [][NextRestart]_vars
    /\ WF_vars(Worker) /\ WF_vars(cancel_batch_commit) /\ WF_vars(run_bulk_processor)

\* The program with stop() called while the worker runs; the worker's
\* coroutine goes on until its loops see the flag.
NextStop == NextNoFault \/ stop

SpecStop == Init /\ [][NextStop]_vars /\ WF_vars(Worker) /\ WF_vars(cancel_batch_commit)

\* The program with a client on the status stream, no store operation of the
\* worker failing; the worker keeps running, and so does generate() while
\* the stream is open.
Stream == \E batch_id \in 1..MaxBatches, user_id \in Users :
              stream_batch_status(batch_id, user_id)

NextStream == NextNoFault \/ Stream \/ generate

SpecStream ==
    /\ Init /\ [][NextStream]_vars
    /\ WF_vars(Worker) /\ WF_vars(cancel_batch_commit) /\ WF_vars(generate)

\* The store operations with create_batch called directly, next to the
\* worker.
Create == \E user_id \in Uploaders, n \in 0..MaxItems : create_batch_call(user_id, n)

NextStore == Create \/ Worker

SpecStore == Init /\ [][NextStore]_vars

-----------------------------------------------------------------------------
(* Shorthands of the properties *)

Batches == 1..Len(batches)

Items(b) == 1..Len(articles[b])

\* cancel_batch has succeeded on batch b: its WARNING entry is in the log.
Cancelled(b) == \E e \in BagToSet(logs) : e.batch_id = b /\ e.level = "WARNING"

WarningEntry(b) ==
    ProcessingLog(b, 0, "WARNING", <<"Batch cancelled by user", batches[b].user_id>>)

ItemsWithStatus(b, status) == {i \in Items(b) : articles[b][i].status = status}

ProcessingItems == {bi \in Batches \X (1..MaxItems + 1) :
                        bi[2] \in Items(bi[1]) /\ articles[bi[1]][bi[2]].status = "processing"}

\* The steps of the worker and of cancel_batch, as seen from outside.
RecordStep == pc = "generate" /\ pc' = "next"

CancelCommitStep == cancel.outcome = "pass" /\ cancel'.outcome = "ok"

CancelReturnsError == cancel' # cancel /\ cancel'.outcome \notin {"pass", "ok"}

-----------------------------------------------------------------------------
\* C1: in every reachable state every batch has
\* completed_articles + failed_articles <= total_articles.
C1_CountersWithinTotal ==
    \A b \in Batches :
        batches[b].completed_articles + batches[b].failed_articles
            <= batches[b].total_articles

\* A batch whose counters have reached its total, with a success and a failure.
C1_Witness ==
    \E b \in Batches :
        /\ batches[b].completed_articles >= 1
        /\ batches[b].failed_articles >= 1
        /\ batches[b].completed_articles + batches[b].failed_articles
               = batches[b].total_articles

\* C2: once a batch's status is completed, failed or cancelled, no step
\* changes it.
C2_TerminalStatusIsFinal ==
    [][\A b \in Batches :
          is_complete(batches[b]) => batches'[b].status = batches[b].status]_vars

\* C3: every change of an item's status is queued -> processing,
\* processing -> completed, processing -> failed or queued -> skipped.
C3_ItemTransitions ==
    [][\A b \in Batches : \A i \in Items(b) :
          articles'[b][i].status # articles[b][i].status =>
              <<articles[b][i].status, articles'[b][i].status>> \in
                  {<<"queued", "processing">>, <<"processing", "completed">>,
                   <<"processing", "failed">>, <<"queued", "skipped">>}]_vars

\* C4: after cancel_batch has succeeded on a batch, no item of that batch
\* moves to processing.
C4_NoClaimAfterCancel ==
    [][\A b \in Batches : \A i \in Items(b) :
          (Cancelled(b) /\ articles[b][i].status # "processing")
              => articles'[b][i].status # "processing"]_vars

\* C5: when the batch the worker selected is no longer pending at the
\* worker's pending -> processing write, the worker leaves the batch's status
\* as it is and gives the batch up instead of entering its item loop.
C5_StartDetectsMismatch ==
    [][(pc = "start" /\ pc' \notin {"start", "except"}
            /\ batches[current_batch].status # "pending")
        => (/\ batches'[current_batch].status = batches[current_batch].status
            /\ pc' = "poll")]_vars

\* C6: the writes of a successful cancel_batch are one step, after which the
\* batch is cancelled with completed_at set, every item that was queued is
\* skipped and one WARNING entry (and nothing else) has been added to the
\* log; and no state has a cancelled batch with a queued item.
C6_CancelAtomic ==
    /\ [](\A b \in Batches :
             batches[b].status = "cancelled" => ItemsWithStatus(b, "queued") = {})
    /\ [][CancelCommitStep =>
             LET b == cancel.batch_id
             IN  /\ batches'[b].status = "cancelled"
                 /\ batches'[b].completed_at
                 /\ \A i \in Items(b) :
                        articles[b][i].status = "queued" => articles'[b][i].status = "skipped"
                 /\ logs' = logs (+) SetToBag({WarningEntry(b)})]_vars

\* A cancel_batch that has just returned the cancelled batch, one item of
\* which it moved from queued to skipped.
C6_Witness ==
    /\ cancel.outcome = "ok"
    /\ batches[cancel.batch_id].status = "cancelled"
    /\ ItemsWithStatus(cancel.batch_id, "skipped") # {}
    /\ BagIn(WarningEntry(cancel.batch_id), logs)

\* C7: a cancel_batch that succeeds while an item is processing leaves that
\* item alone, skips the queued items and returns with the batch cancelled;
\* when the item's outcome is recorded it is counted, and the batch is still
\* cancelled afterwards.
C7_CancelDuringProcessing ==
    [][/\ CancelCommitStep =>
            LET b == cancel.batch_id
            IN  /\ \A i \in Items(b) :
                       /\ articles[b][i].status = "processing"
                              => articles'[b][i] = articles[b][i]
                       /\ articles[b][i].status = "queued"
                              => articles'[b][i].status = "skipped"
                /\ batches'[b].status = "cancelled"
       /\ (RecordStep /\ cancel.outcome = "ok" /\ cancel.batch_id = current_batch
               /\ current_article \in cancel.in_flight) =>
            LET b == current_batch
            IN  /\ articles'[b][current_article].status \in {"completed", "failed"}
                /\ batches'[b].completed_articles + batches'[b].failed_articles
                       = batches[b].completed_articles + batches[b].failed_articles + 1
                /\ batches'[b].status = "cancelled"]_vars

\* C8: an item moves to processing only when every item of its batch with a
\* smaller row_index is completed, failed or skipped, and an item completes
\* or fails only when no item of its batch with a larger row_index has.
C8_AscendingOrder ==
    [][\A b \in Batches : \A i \in Items(b) :
          /\ (articles[b][i].status # "processing" /\ articles'[b][i].status = "processing")
                 => \A j \in Items(b) :
                        articles[b][j].row_index < articles[b][i].row_index
                            => article_is_complete(articles[b][j])
          /\ (articles[b][i].status \notin {"completed", "failed"}
                  /\ articles'[b][i].status \in {"completed", "failed"})
                 => \A j \in Items(b) :
                        articles[b][j].row_index > articles[b][i].row_index
                            => articles[b][j].status \notin {"completed", "failed"}]_vars

\* The second item of a batch is processing after the first one has failed.
C8_Witness ==
    \E b \in Batches :
        /\ Len(articles[b]) >= 2
        /\ articles[b][1].status = "failed"
        /\ articles[b][2].status = "processing"

C10_CancelErrors ==
    [][CancelReturnsError =>
          LET id == cancel'.batch_id
              exists == id \in Batches
          IN  /\ cancel'.outcome \in {"not found", "Unauthorized",
                                     "Cannot cancel completed batch"}
              /\ cancel'.outcome = "not found" <=> ~exists
              /\ cancel'.outcome = "Unauthorized"
                     <=> (exists /\ batches[id].user_id # cancel'.user_id)
              /\ cancel'.outcome = "Cannot cancel completed batch"
                     <=> (/\ exists
                          /\ batches[id].user_id = cancel'.user_id
                          /\ batches[id].status \in {"completed", "failed", "cancelled"})]_vars

\* The owner's cancel_batch has been refused on a completed batch.
C10_Witness ==
    /\ cancel.outcome = "Cannot cancel completed batch"
    /\ cancel.batch_id \in Batches
    /\ batches[cancel.batch_id].status = "completed"
    /\ batches[cancel.batch_id].user_id = cancel.user_id

\* C11: a cancel_batch call that fails (no such batch, another owner, or a
\* batch already completed, failed or cancelled) leaves every batch, every
\* article and the log as they were.
C11_FailedCancelChangesNothing ==
    [][CancelReturnsError => UNCHANGED <<batches, articles, logs>>]_vars

\* Somebody else's cancel_batch has been refused on a batch that is being
\* processed and still has a queued article.
C11_Witness ==
    /\ cancel.outcome = "Unauthorized"
    /\ cancel.batch_id \in Batches
    /\ batches[cancel.batch_id].status = "processing"
    /\ ItemsWithStatus(cancel.batch_id, "queued") # {}

\* C12: once cancel_batch has succeeded on a batch, every later cancel_batch
\* call of the owner on that batch fails with "Cannot cancel completed
\* batch", whatever the worker did in between.
C12_SecondCancelFails ==
    [][(/\ cancel' # cancel
        /\ cancel'.outcome # "ok"
        /\ cancel'.batch_id \in Batches
        /\ Cancelled(cancel'.batch_id)
        /\ cancel'.user_id = batches[cancel'.batch_id].user_id)
       => cancel'.outcome = "Cannot cancel completed batch"]_vars

\* C13: create_batch with n >= 1 entries adds a pending batch with
\* total_articles = n and both counters 0, and exactly n articles, all
\* queued, the idx-th of which has row_index idx (so the row_index values
\* are distinct, are 1..n and follow the order of the entries).
C13_CreateBatch ==
    [][Len(batches') > Len(batches) =>
          LET b == Len(batches')
              n == batches'[b].total_articles
          IN  /\ b = Len(batches) + 1
              /\ Len(articles') = b
              /\ n >= 1
              /\ batches'[b].status = "pending"
              /\ batches'[b].completed_articles = 0
              /\ batches'[b].failed_articles = 0
              /\ Len(articles'[b]) = n
              /\ \A idx \in 1..n :
                     /\ articles'[b][idx].status = "queued"
                     /\ articles'[b][idx].row_index = idx
              /\ \A i, j \in 1..n :
                     i # j => articles'[b][i].row_index # articles'[b][j].row_index
              /\ \A c \in Batches :
                     batches'[c] = batches[c] /\ articles'[c] = articles[c]]_vars

\* A batch of two articles as create_batch left it.
C13_Witness ==
    \E b \in Batches :
        /\ batches[b].status = "pending"
        /\ batches[b].total_articles = 2
        /\ Len(articles[b]) = 2
        /\ articles[b][1].row_index = 1
        /\ articles[b][2].row_index = 2
        /\ ItemsWithStatus(b, "queued") = {1, 2}

\* C14: in every state every batch row comes with exactly total_articles
\* article rows, so the batch the worker has selected has all of its rows.
C14_CreationAtomic ==
    /\ Len(articles) = Len(batches)
    /\ \A b \in Batches : Len(articles[b]) = batches[b].total_articles
    /\ current_batch # 0 =>
           Len(articles[current_batch]) = batches[current_batch].total_articles

\* The worker has selected a pending batch of two articles and is about to
\* start it.
C14_Witness ==
    /\ pc = "start"
    /\ batches[current_batch].status = "pending"
    /\ batches[current_batch].total_articles = 2
    /\ ItemsWithStatus(current_batch, "queued") = {1, 2}

\* C15: create_batch refuses an empty articles_data and persists nothing
\* for it, so no batch in the store has total_articles = 0 (nor a log entry
\* of a batch created with 0 articles).
C15_EmptyCreateRejected ==
    /\ \A b \in Batches : batches[b].total_articles >= 1
    /\ \A e \in BagToSet(logs) : e.message # <<"Batch created with", 0>>

\* C16: when no store operation of the worker fails, a batch that has not
\* been cancelled and whose counters have reached total_articles is
\* completed (with failures or without), with failed_articles the number of
\* its failed articles and completed_articles the number of its completed
\* ones.
C16_CompletedWhenCountersReachTotal ==
    \A b \in Batches :
        (/\ ~Cancelled(b)
         /\ batches[b].completed_articles + batches[b].failed_articles
                = batches[b].total_articles)
        => /\ batches[b].status = "completed"
           /\ batches[b].completed_at
           /\ batches[b].failed_articles = Cardinality(ItemsWithStatus(b, "failed"))
           /\ batches[b].completed_articles = Cardinality(ItemsWithStatus(b, "completed"))
           /\ batches[b].completed_articles
                  = batches[b].total_articles - batches[b].failed_articles

\* A batch of two articles, never cancelled, the first failed and the second
\* completed, right after the second outcome was recorded.
C16_Witness ==
    /\ pc = "next"
    /\ current_batch \in Batches
    /\ ~Cancelled(current_batch)
    /\ batches[current_batch].total_articles = 2
    /\ articles[current_batch][1].status = "failed"
    /\ articles[current_batch][2].status = "completed"
    /\ batches[current_batch].status = "completed"

\* C17: when no store operation of the worker fails, no batch has status
\* failed, however many of its articles fail.
C17_ItemFailuresNeverFailBatch ==
    \A b \in Batches : batches[b].status # "failed"

\* A batch both articles of which have failed; the batch is completed.
C17_Witness ==
    \E b \in Batches :
        /\ batches[b].total_articles = 2
        /\ ItemsWithStatus(b, "failed") = {1, 2}
        /\ batches[b].failed_articles = 2
        /\ batches[b].status = "completed"

\* Batch b exists and is completed, failed or cancelled.
Terminal(b) == b \in Batches /\ is_complete(batches[b])

\* Batch b exists and has run to its end: completed, every article
\* completed or failed.
Finished(b) ==
    /\ b \in Batches
    /\ batches[b].status = "completed"
    /\ \A i \in Items(b) : articles[b][i].status \in {"completed", "failed"}

\* C18: when the worker keeps running and no store operation of it fails,
\* every batch in the store eventually is in a terminal status, and a batch
\* that is never cancelled eventually is completed with each of its articles
\* completed or failed.
C18_EveryBatchTerminates ==
    \A b \in 1..MaxBatches :
        /\ (b \in Batches) ~> Terminal(b)
        /\ (b \in Batches) ~> (Cancelled(b) \/ Finished(b))

\* The worker runs, and batch b, which it is not working on, was left
\* processing with queued articles.
LeftBehind(b) ==
    /\ b \in Batches
    /\ pc # "stopped"
    /\ current_batch # b
    /\ batches[b].status = "processing"
    /\ ItemsWithStatus(b, "queued") # {}

\* C19: when the worker runs again after it stopped on a processing batch
\* that still had queued articles, then (unless it is stopped once more)
\* those articles are eventually claimed and the batch eventually is in a
\* terminal status.
C19_Resumes ==
    \A b \in 1..MaxBatches :
        /\ LeftBehind(b) ~> (pc = "stopped" \/ (b \in Batches /\ ItemsWithStatus(b, "queued") = {}))
        /\ LeftBehind(b) ~> (pc = "stopped" \/ Terminal(b))

\* C20: when a store operation of process_batch has raised, the batch that
\* was being processed has status failed once process_batch is left.
C20_ExceptionFailsBatch ==
    [][(pc = "except" /\ pc' # "except")
           => batches'[current_batch].status = "failed"]_vars

\* C21: whenever the worker moves a batch from pending to processing, no
\* batch created before it is pending.
C21_OldestPendingFirst ==
    [][\A b \in Batches :
          (batches[b].status = "pending" /\ batches'[b].status = "processing")
              => \A c \in 1..(b - 1) : batches[c].status # "pending"]_vars

\* The worker has just started the second batch while the first one, created
\* before it, is completed.
C21_Witness ==
    /\ pc = "next"
    /\ current_batch = 2
    /\ batches[2].status = "processing"
    /\ batches[1].status = "completed"

\* Batch c was started by the worker before this step and still has an
\* article that is queued or processing.
Undrained(c) ==
    /\ batches[c].started_at
    /\ \E i \in Items(c) : articles[c][i].status \in {"queued", "processing"}

\* C22: the worker does not move a batch to processing, nor an article of it,
\* while another batch that it started earlier still has a queued or
\* processing article, also after a restart of the worker.
C22_DrainsBeforeNext ==
    [][\A b \in Batches :
          (\/ batches[b].status # "processing" /\ batches'[b].status = "processing"
           \/ \E i \in Items(b) : /\ articles[b][i].status # "processing"
                                   /\ articles'[b][i].status = "processing")
          => \A c \in Batches \ {b} : ~Undrained(c)]_vars

\* C23: in every state each batch's completed_articles is the number of its
\* completed articles and its failed_articles the number of its failed ones.
C23_CountersMatchItems ==
    \A b \in Batches :
        /\ batches[b].completed_articles = Cardinality(ItemsWithStatus(b, "completed"))
        /\ batches[b].failed_articles = Cardinality(ItemsWithStatus(b, "failed"))

\* A cancelled batch with one article completed (counted) and one skipped,
\* the completed one having been in flight when the cancel committed.
C23_Witness ==
    \E b \in Batches :
        /\ Cancelled(b)
        /\ batches[b].completed_articles = 1
        /\ ItemsWithStatus(b, "completed") # {}
        /\ ItemsWithStatus(b, "skipped") # {}

\* C24: a batch's status changes only from pending to processing or
\* cancelled, and from processing to completed, failed or cancelled.
C24_BatchStateMachine ==
    [][\A b \in Batches :
          batches'[b].status # batches[b].status =>
              <<batches[b].status, batches'[b].status>> \in
                  {<<"pending", "processing">>, <<"pending", "cancelled">>,
                   <<"processing", "completed">>, <<"processing", "failed">>,
                   <<"processing", "cancelled">>}]_vars

\* What the stream compares of an event.
Triple(event) == <<event.status, event.completed_articles, event.failed_articles>>

StreamOpen == stream.state \in {"open", "polling"}

\* C25: the first poll of the stream yields an event; two events yielded one
\* after the other differ in status, completed_articles or failed_articles;
\* and what the stream compares the next read with is the event it yielded
\* last, so that a poll reading the same values yields nothing.
C25_EmitsOnChangeOnly ==
    /\ stream.state \in {"polling", "closed"} => stream.event # NoEvent
    /\ stream.event # NoEvent =>
           /\ Triple(stream.event) # Triple(stream.previous)
           /\ stream.last = Triple(stream.event)

\* The stream has yielded two events of a processing batch, the second one
\* after an article was completed.
C25_Witness ==
    /\ stream.state = "polling"
    /\ stream.previous.status = "processing"
    /\ stream.event.status = "processing"
    /\ stream.event.completed_articles = stream.previous.completed_articles + 1

\* C26: a closed stream has yielded, as its last event, one with is_complete
\* true and a terminal status; no event follows an is_complete event; and
\* when the batch of an open stream is in a terminal status, the stream
\* eventually closes.
C26_StreamCloses ==
    /\ [](stream.state = "closed" =>
             /\ stream.event.is_complete
             /\ stream.event.status \in {"completed", "failed", "cancelled"})
    /\ [](~stream.previous.is_complete)
    /\ (StreamOpen /\ Terminal(stream.batch_id)) ~> (stream.state = "closed")

\* C27: progress_percentage is 0 when total_articles = 0 and otherwise
\* (completed_articles + failed_articles) * 100 / total_articles; it lies
\* between 0 and 100 inclusive, and it is 100 for every completed batch.
C27_ProgressPercentage ==
    \A b \in Batches :
        LET batch == batches[b]
            p == progress_percentage(batch)
            done == batch.completed_articles + batch.failed_articles
        IN  /\ p.den > 0
            /\ batch.total_articles = 0 => p.num = 0
            /\ batch.total_articles # 0 =>
                   p.num * batch.total_articles = done * 100 * p.den
            /\ 0 <= p.num /\ p.num <= 100 * p.den
            /\ batch.status = "completed" => p.num = 100 * p.den

\* The step changes the status of batch b or of one of its articles, or
\* creates b.
StatusChange(b) ==
    \/ b \notin Batches
    \/ /\ b \in Batches
       /\ \/ batches'[b].status # batches[b].status
          \/ \E i \in Items(b) : articles'[b][i].status # articles[b][i].status

\* The step adds a log entry of batch b.
Logged(b) ==
    \E e \in BagToSet(logs') :
        e.batch_id = b /\ CopiesIn(e, logs') > CopiesIn(e, logs)

\* C28: the log is append-only and complete: no step changes or removes an
\* entry, and every step that creates a batch or changes the status of a
\* batch or of an article adds at least one entry of that batch.
C28_LogAppendOnlyComplete ==
    [][/\ logs \sqsubseteq logs'
       /\ \A b \in 1..Len(batches') : StatusChange(b) => Logged(b)]_vars

\* The log holds an entry of each kind of step: creation, batch claim, article
\* claim, article success, article failure, batch completion, batch failure
\* and cancel.
C28_Witness ==
    LET Has(level, message) ==
            \E e \in BagToSet(logs) : e.level = level /\ e.message = message
    IN  /\ \E n \in 1..MaxItems : Has("INFO", <<"Batch created with", n>>)
        /\ Has("INFO", <<"Batch status changed to", "processing">>)
        /\ Has("INFO", <<"Article status changed to", "processing">>)
        /\ Has("INFO", <<"Article status changed to", "completed">>)
        /\ Has("ERROR", <<"Article status changed to", "failed">>)
        /\ Has("INFO", <<"Batch status changed to", "completed">>)
        /\ Has("ERROR", <<"Batch status changed to", "failed">>)
        /\ \E e \in BagToSet(logs) : e.level = "WARNING"

\* C29: total_articles of a batch never changes after create_batch, and the
\* number of articles of the batch stays equal to it.
C29_TotalImmutable ==
    [][/\ \A b \in Batches :
              /\ batches'[b].total_articles = batches[b].total_articles
              /\ Len(articles'[b]) = Len(articles[b])
       /\ \A b \in 1..Len(batches') :
              Len(articles'[b]) = batches'[b].total_articles]_vars

\* A batch of MaxItems articles that the worker has taken one article of to
\* its end and that was then cancelled with an article still queued.
C29_Witness ==
    \E b \in Batches :
        /\ batches[b].total_articles = MaxItems
        /\ Len(articles[b]) = MaxItems
        /\ batches[b].status = "cancelled"
        /\ batches[b].completed_articles + batches[b].failed_articles = 1
        /\ ItemsWithStatus(b, "skipped") # {}

\* C30: a successful cancel_batch changes only the batch's status and
\* completed_at and the status of the articles that were queued: the batch's
\* counters, total_articles and started_at, every article that was not
\* queued, and every other batch with its articles stay as they were.
C30_CancelFrame ==
    [][CancelCommitStep =>
          LET b == cancel.batch_id
          IN  /\ batches' = [batches EXCEPT
                                ![b].status = batches'[b].status,
                                ![b].completed_at = batches'[b].completed_at]
              /\ Len(articles') = Len(articles)
              /\ \A c \in Batches \ {b} : articles'[c] = articles[c]
              /\ Len(articles'[b]) = Len(articles[b])
              /\ \A i \in Items(b) :
                     IF articles[b][i].status = "queued"
                     THEN articles'[b][i] =
                              [articles[b][i] EXCEPT !.status = articles'[b][i].status]
                     ELSE articles'[b][i] = articles[b][i]]_vars

\* A cancel_batch that has just returned, on a started batch with one article
\* still processing and one it skipped, while another batch exists.
C30_Witness ==
    /\ cancel.outcome = "ok"
    /\ Len(batches) = MaxBatches
    /\ batches[cancel.batch_id].started_at
    /\ \E i \in cancel.in_flight : articles[cancel.batch_id][i].status = "processing"
    /\ ItemsWithStatus(cancel.batch_id, "skipped") # {}

\* C31: processing_attempts of an article goes up by one exactly in the step
\* that moves the article to processing, and in every state it is 0 for a
\* queued or skipped article and 1 for a processing, completed or failed one.
C31_AttemptsCountClaims ==
    /\ [](\A b \in Batches : \A i \in Items(b) :
             articles[b][i].processing_attempts =
                 IF articles[b][i].status \in {"queued", "skipped"} THEN 0 ELSE 1)
    /\ [][\A b \in Batches : \A i \in Items(b) :
             LET moved == /\ articles[b][i].status # "processing"
                          /\ articles'[b][i].status = "processing"
             IN  articles'[b][i].processing_attempts =
                     articles[b][i].processing_attempts + (IF moved THEN 1 ELSE 0)]_vars

\* One batch holds an article that ran to its end and one that is being
\* processed, another holds a skipped article.
C31_Witness ==
    \E b, c \in Batches :
        /\ ItemsWithStatus(b, "completed") \cup ItemsWithStatus(b, "failed") # {}
        /\ ItemsWithStatus(b, "processing") # {}
        /\ ItemsWithStatus(c, "skipped") # {}
        /\ \A i \in Items(b) : articles[b][i].processing_attempts = 1

\* The worker is inside process_article with the flag cleared.
InFlightAtStop == ~processing /\ pc = "generate"

\* C32: once the flag is cleared the worker moves no article and no batch to
\* processing; the article in flight still gets its outcome and its counter
\* increment and the worker then comes to its end; and when the worker leaves
\* a batch that still has queued articles, the batch stays processing.
C32_StopIsCooperative ==
    /\ [][~processing =>
             \A b \in Batches :
                 /\ batches[b].status # "processing" => batches'[b].status # "processing"
                 /\ \A i \in Items(b) :
                        articles[b][i].status # "processing"
                            => articles'[b][i].status # "processing"]_vars
    /\ [][(InFlightAtStop /\ pc' # pc) =>
             LET b == current_batch
                 i == current_article
             IN  /\ articles'[b][i].status \in {"completed", "failed"}
                 /\ batches'[b].completed_articles + batches'[b].failed_articles
                        = batches[b].completed_articles + batches[b].failed_articles + 1]_vars
    /\ InFlightAtStop ~> (pc = "stopped")
    /\ [][(~processing /\ pc = "finish" /\ pc' = "poll"
              /\ ItemsWithStatus(current_batch, "queued") # {}) =>
             /\ batches[current_batch].status = "processing"
             /\ batches'[current_batch].status = "processing"]_vars

\* The worker has come to its end after a stop() during a generation: the
\* article in flight was recorded, and the batch, with an article still
\* queued, is processing.
C32_Witness ==
    /\ ~processing
    /\ pc = "stopped"
    /\ \E b \in Batches :
           /\ batches[b].status = "processing"
           /\ batches[b].completed_articles + batches[b].failed_articles = 1
           /\ ItemsWithStatus(b, "queued") # {}
           /\ ItemsWithStatus(b, "processing") = {}

\* Article i of batch b is processing and no worker is on it: the worker
\* that moved it there was stopped before it recorded the outcome.
Stranded(b, i) ==
    /\ articles[b][i].status = "processing"
    /\ ~(pc = "generate" /\ current_batch = b /\ current_article = i)

\* C33: an article left processing by a stopped worker is never changed
\* again, whatever runs afterwards, the restarted worker included: it stays
\* processing, and the counters of its batch stay as they were and count
\* only the completed and the failed articles.
C33_StrandedForever ==
    /\ [][\A b \in Batches : \A i \in Items(b) :
             Stranded(b, i) =>
                 /\ articles'[b][i] = articles[b][i]
                 /\ ~(pc' = "generate" /\ current_batch' = b /\ current_article' = i)
                 /\ batches'[b].completed_articles = batches[b].completed_articles
                 /\ batches'[b].failed_articles = batches[b].failed_articles]_vars
    /\ [](\A b \in Batches :
             (\E i \in Items(b) : Stranded(b, i)) =>
                 /\ batches[b].completed_articles
                        = Cardinality(ItemsWithStatus(b, "completed"))
                 /\ batches[b].failed_articles
                        = Cardinality(ItemsWithStatus(b, "failed")))

\* The worker was stopped on an article of one batch, was started again and
\* has since taken a later batch to its end.
C33_Witness ==
    /\ processing
    /\ \E b, c \in Batches :
           /\ b < c
           /\ \E i \in Items(b) : Stranded(b, i)
           /\ batches[c].status = "completed"
           /\ batches[c].started_at

\* The worker's step that moves the article it read to processing.
MarkStep == pc = "mark" /\ pc' = "generate"

\* C34: each article transition of the worker adds exactly one log entry, of
\* the article, with level ERROR when the new status is failed and INFO
\* otherwise; the entry a cancel_batch adds has level WARNING.
C34_LogLevels ==
    /\ [][(MarkStep \/ RecordStep) =>
             LET b == current_batch
                 i == current_article
                 status == articles'[b][i].status
             IN  \E level \in {"INFO", "ERROR"} :
                     /\ level = "ERROR" <=> status = "failed"
                     /\ logs' = logs (+) SetToBag({
                            ProcessingLog(b, i, level,
                                          <<"Article status changed to", status>>)})]_vars
    /\ [][CancelCommitStep =>
             /\ BagCardinality(logs') = BagCardinality(logs) + 1
             /\ \E e \in BagToSet(logs') :
                    /\ CopiesIn(e, logs') = CopiesIn(e, logs) + 1
                    /\ e.level = "WARNING"]_vars

\* The log holds the ERROR entry of a failed article, the INFO entry of a
\* completed one and the WARNING entry of a cancel.
C34_Witness ==
    /\ \E b \in Batches : \E i \in ItemsWithStatus(b, "failed") :
           BagIn(ProcessingLog(b, i, "ERROR", <<"Article status changed to", "failed">>), logs)
    /\ \E b \in Batches : \E i \in ItemsWithStatus(b, "completed") :
           BagIn(ProcessingLog(b, i, "INFO", <<"Article status changed to", "completed">>), logs)
    /\ \E b \in Batches : BagIn(WarningEntry(b), logs)

\* C35: a batch with status pending has all its articles queued, both
\* counters 0 and no started_at.
C35_PendingUntouched ==
    \A b \in Batches :
        batches[b].status = "pending" =>
            /\ ItemsWithStatus(b, "queued") = Items(b)
            /\ batches[b].completed_articles = 0
            /\ batches[b].failed_articles = 0
            /\ ~batches[b].started_at

\* A batch waits pending while the worker is in the middle of an earlier one.
C35_Witness ==
    \E b, c \in Batches :
        /\ batches[b].status = "pending"
        /\ Len(articles[b]) = MaxItems
        /\ batches[c].status = "processing"
        /\ batches[c].completed_articles + batches[c].failed_articles = 1
        /\ ItemsWithStatus(c, "processing") # {}

\* C36: a batch with status completed has completed_articles +
\* failed_articles = total_articles, and each of its articles is completed
\* or failed.
C36_CompletedMeansAllDone ==
    \A b \in Batches :
        batches[b].status = "completed" =>
            /\ batches[b].completed_articles + batches[b].failed_articles
                   = batches[b].total_articles
            /\ \A i \in Items(b) : articles[b][i].status \in {"completed", "failed"}

\* A completed batch of MaxItems articles, one of them failed.
C36_Witness ==
    \E b \in Batches :
        /\ batches[b].status = "completed"
        /\ batches[b].total_articles = MaxItems
        /\ batches[b].failed_articles = 1
        /\ ItemsWithStatus(b, "failed") # {}
        /\ ItemsWithStatus(b, "completed") # {}

\* C37: a batch with status completed, failed or cancelled has no queued
\* article.
C37_TerminalHasNoQueued ==
    \A b \in Batches :
        is_complete(batches[b]) => ItemsWithStatus(b, "queued") = {}

\* C38: completed_at of a batch is set exactly when its status is completed,
\* failed or cancelled, and started_at is set whenever its status is
\* processing or completed.
C38_Timestamps ==
    \A b \in Batches :
        /\ batches[b].completed_at <=> is_complete(batches[b])
        /\ batches[b].status \in {"processing", "completed"} => batches[b].started_at

\* C39: the counters of a batch never go down and their sum goes up by at
\* most 1 in a step; and the counters a status stream reads at a poll are
\* not below those it read at the poll before.
C39_CountersMonotone ==
    /\ [][\A b \in Batches :
             /\ batches'[b].completed_articles >= batches[b].completed_articles
             /\ batches'[b].failed_articles >= batches[b].failed_articles
             /\ batches'[b].completed_articles + batches'[b].failed_articles
                    <= batches[b].completed_articles + batches[b].failed_articles + 1]_vars
    /\ [][/\ stream'.last[2] >= stream.last[2]
          /\ stream'.last[3] >= stream.last[3]
          /\ stream'.event.completed_articles >= stream.event.completed_articles
          /\ stream'.event.failed_articles >= stream.event.failed_articles
          /\ stream.event.completed_articles >= stream.previous.completed_articles
          /\ stream.event.failed_articles >= stream.previous.failed_articles]_vars

\* A stream has yielded an event with one article done and then one with
\* two, a completed and a failed one.
C39_Witness ==
    /\ stream.state \in {"polling", "closed"}
    /\ stream.previous.completed_articles + stream.previous.failed_articles = 1
    /\ stream.event.completed_articles = 1
    /\ stream.event.failed_articles = 1

\* A step of process_batch, from its first write to its return.
ProcessBatchStep ==
    /\ pc \in {"start", "next", "mark", "generate", "finish", "except"}
    /\ pc' # pc

\* C40: every write of process_batch on batch B is to B's row, to B's
\* articles or a log entry of B: no other batch and no article of another
\* batch changes in a step of the worker.
C40_WorkerWritesOwnBatch ==
    [][ProcessBatchStep =>
          /\ Len(batches') = Len(batches)
          /\ \A c \in Batches \ {current_batch} :
                 /\ batches'[c] = batches[c]
                 /\ articles'[c] = articles[c]
          /\ \A e \in BagToSet(logs') :
                 CopiesIn(e, logs') # CopiesIn(e, logs) => e.batch_id = current_batch]_vars

\* The worker is on an article of the second batch while the first one,
\* cancelled with a skipped article, is as the cancel left it.
C40_Witness ==
    /\ pc = "generate"
    /\ current_batch = MaxBatches
    /\ batches[current_batch].status = "processing"
    /\ \E c \in Batches \ {current_batch} :
           /\ batches[c].status = "cancelled"
           /\ ItemsWithStatus(c, "skipped") # {}

=============================================================================
